---- MODULE Spec2Model ----
(***************************************************************************)
(* Model of client/src/pages/Dashboard.jsx: the Dashboard component's      *)
(* React state, its effect (fetchDashboardData + the 30 s polling timer),  *)
(* the manual refresh button, the time-slot select and calculateSummary.   *)
(*                                                                         *)
(* Strings are sequences of one-character strings, so that the template    *)
(* `${startTime}-${endTime}` and String.split('-') are computed.           *)
(* One action is one event-loop task: a DOM event together with the render *)
(* and effects it flushes, an interval callback, or the arrival of an HTTP *)
(* response together with the promise continuations it runs.               *)
(***************************************************************************)
EXTENDS Integers, Sequences, FiniteSets, Bags, TLC

\* ---------------------------------------------------------------- bounds
MaxEvents == 1       \* events after the mount: filter changes, clicks on the
                     \* refresh button, firings of the timer, the unmount
MaxStatsLen == 3     \* length of a stats array given to calculateSummary

\* ------------------------------------------------------- program values
Null == [null |-> TRUE, data |-> <<>>]    \* null, as in useState(null)
Arr(d) == [null |-> FALSE, data |-> d]     \* an array value
ALL == <<"a", "l", "l">>             \* the sentinel 'all', line 15
Dash == "-"
Today == <<"D">>                     \* new Date().toISOString().split('T')[0]
Threshold == 75

\* time strings the backend uses; <<>> is an absent (falsy) startTime/endTime
Times == {<<"8">>, <<"9">>}
Students == {"s1", "s2"}

\* ----------------------------------------------------- string operations
\* `${a}-${b}`
Template(a, b) == a \o <<Dash>> \o b

RECURSIVE SplitFrom(_, _, _)
\* String.prototype.split(sep): the segments of s between occurrences of sep;
\* cur is the segment being read.
SplitFrom(s, sep, cur) ==
  IF s = <<>> THEN <<cur>>
  ELSE IF Head(s) = sep THEN <<cur>> \o SplitFrom(Tail(s), sep, <<>>)
  ELSE SplitFrom(Tail(s), sep, Append(cur, Head(s)))

Split(s, sep) == SplitFrom(s, sep, <<>>)

\* const [startTime, endTime] = selectedTimeSlot.split('-'): the first two
\* elements, undefined (here <<"undefined">>) when missing
Destructure2(parts) ==
  << IF Len(parts) >= 1 THEN parts[1] ELSE <<"undefined">>,
     IF Len(parts) >= 2 THEN parts[2] ELSE <<"undefined">> >>

\* statsUrl of fetchDashboardData and of the refresh button
StatsUrl(sel) ==
  IF sel # ALL
  THEN LET p == Destructure2(Split(sel, Dash))
       IN [path |-> <<"/api/attendance/stats">>,
           query |-> << <<"startTime", p[1]>>, <<"endTime", p[2]>> >>]
  ELSE [path |-> <<"/api/attendance/stats">>, query |-> <<>>]

\* attendanceUrl of fetchDashboardData, of the timer and of the refresh button
AttendanceUrl(sel) ==
  IF sel # ALL
  THEN LET p == Destructure2(Split(sel, Dash))
       IN [path |-> <<"/api/attendance/timeslot">>,
           query |-> << <<"date", Today>>, <<"startTime", p[1]>>,
                        <<"endTime", p[2]>> >>]
  ELSE [path |-> <<"/api/attendance/date/", Today>>, query |-> <<>>]

\* --------------------------------------------------------- backend data
Range(f) == {f[i] : i \in DOMAIN f}

Stat(s, p, a, b) == [student |-> s, presentPercentage |-> p, startTime |-> a, endTime |-> b]

\* AttendanceStat arrays the stats endpoint may return: none, one slot, one
\* slot twice, and another slot beside an entry without a startTime
StatsResponses ==
  { <<>>,
    <<Stat("s1", 50, <<"8">>, <<"9">>)>>,
    <<Stat("s1", 50, <<"8">>, <<"9">>), Stat("s2", 90, <<"8">>, <<"9">>)>>,
    <<Stat("s2", 75, <<"9">>, <<"8">>), Stat("s1", 74, <<>>, <<"9">>)>> }

\* AttendanceRecord arrays the two record endpoints may return
RecResponses == {[i \in 1..n |-> [id |-> i]] : n \in {0, 2}}

\* ------------------------------------------------------ calculateSummary
Zero == [num |-> 0, den |-> 1]        \* the number 0 as a fraction

RECURSIVE Reduce(_, _)
\* stats.reduce((acc, stat) => acc + stat.presentPercentage, acc)
Reduce(st, acc) ==
  IF st = <<>> THEN acc ELSE Reduce(Tail(st), acc + Head(st).presentPercentage)

\* stats.filter(stat => stat.presentPercentage < 75).length
BelowThresholdOff(st) ==
  Cardinality({i \in DOMAIN st : st[i].presentPercentage <= Threshold})

BelowThreshold(st) ==
  Cardinality({i \in DOMAIN st : st[i].presentPercentage < Threshold})

\* new Set(stats.map(stat => stat.student)).size; student references are
\* primitive identifiers
UniqueStudents(st) == {st[i].student : i \in DOMAIN st}

\* calculateSummary(); averageAttendance is the fraction num/den
CalculateSummary(st, recent) ==
  IF st.null \/ Len(st.data) = 0
  THEN [totalStudents |-> 0, averageAttendance |-> Zero,
        presentToday |-> 0, belowThreshold |-> 0]
  ELSE [totalStudents |-> Cardinality(UniqueStudents(st.data)),
        averageAttendance |-> [num |-> Reduce(st.data, 0), den |-> Len(st.data)],
        presentToday |-> Len(recent),
        belowThreshold |-> BelowThreshold(st.data)]

RECURSIVE AddSlots(_, _)
\* the forEach of lines 33-38 followed by Array.from(slots): a Set keeps
\* insertion order and drops repeated values
AddSlots(data, slots) ==
  IF data = <<>> THEN slots
  ELSE LET stat == Head(data)
           slot == Template(stat.startTime, stat.endTime)
       IN IF stat.startTime # <<>> /\ stat.endTime # <<>> /\ slot \notin Range(slots)
          THEN AddSlots(Tail(data), Append(slots, slot))
          ELSE AddSlots(Tail(data), slots)

ExtractSlots(data) == AddSlots(data, <<>>)

\* ------------------------------------------------------------------ state
VARIABLES
  phase,             \* "init" (constructed), "mounted", "unmounted"
  stats,             \* useState(null)
  recentAttendance,  \* useState([])
  isLoading,         \* useState(true)
  refreshKey,        \* useState(0)
  timeSlots,         \* useState([])
  selectedTimeSlot,  \* useState('all')
  timers,            \* active setInterval timers: [id, filter] (filter: the
                     \* selectedTimeSlot the callback closed over)
  refreshInterval,   \* timer id held by the cleanup of the last effect run
  requests,          \* HTTP requests in flight
  loads,             \* one record per effect run (call of fetchDashboardData)
  clicks,            \* one record per click on the refresh button
  ticks,             \* one entry per firing of the timer callback
  issued,            \* every call of api.get so far, as a bag of requests
  toasts,            \* calls of toast.error / toast.success, in order
  recentFrom,        \* the request whose response recentAttendance holds
  sArgs,             \* calculateSummary alone: the arrays given to it
  sOut               \* calculateSummary alone: what it returned

reactState == <<stats, recentAttendance, isLoading, refreshKey, timeSlots,
                selectedTimeSlot>>
history == <<loads, clicks, ticks, issued, toasts, recentFrom>>
summaryVars == <<sArgs, sOut>>
vars == <<phase, reactState, timers, refreshInterval, requests, history,
          summaryVars>>

NoRequest == [origin |-> "none", owner |-> 0, kind |-> "none", url |-> StatsUrl(ALL)]
NoSummary == [totalStudents |-> -1, averageAttendance |-> Zero,
              presentToday |-> -1, belowThreshold |-> -1]

\* the component as constructed by its first render (lines 10-15)
InitDashboard ==
  /\ phase = "init"
  /\ stats = Null
  /\ recentAttendance = <<>>
  /\ isLoading = TRUE
  /\ refreshKey = 0
  /\ timeSlots = <<>>
  /\ selectedTimeSlot = ALL
  /\ timers = {}
  /\ refreshInterval = 0
  /\ requests = {}
  /\ loads = <<>>
  /\ clicks = <<>>
  /\ ticks = <<>>
  /\ issued = EmptyBag
  /\ toasts = EmptyBag
  /\ recentFrom = NoRequest

Init ==
  /\ InitDashboard
  /\ sArgs = [stats |-> Null, recent |-> <<>>]
  /\ sOut = NoSummary

\* events after the mount so far
Events == Len(loads) - 1 + Len(ticks) + (IF phase = "unmounted" THEN 1 ELSE 0)

\* a state setter: React ignores it once the component is unmounted
SetState(cur, new) == IF phase = "mounted" \/ phase = "init" THEN new ELSE cur

Request(origin, owner, kind, url) ==
  [origin |-> origin, owner |-> owner, kind |-> kind, url |-> url]

Toast(kind, msg, origin, owner) ==
  [kind |-> kind, msg |-> msg, origin |-> origin, owner |-> owner]

\* ------------------------------------------------------------- the effect
\* the timers left by clearInterval(refreshInterval), the cleanup returned
\* by the effect
ClearIntervalOff(ts, id) == ts

ClearInterval(ts, id) == {t \in ts : t.id # id}

\* the url the interval callback requests; sel is the selectedTimeSlot its
\* closure captured
TimerUrl(sel) == AttendanceUrl(sel)

\* the first request of fetchDashboardData
LoadStatsUrlOff(sel) == StatsUrl(ALL)

LoadStatsUrl(sel) == StatsUrl(sel)

\* One run of the effect body with selectedTimeSlot = sel, after the cleanup
\* of the previous run: fetchDashboardData() runs up to its first await and
\* setInterval starts a timer. reqs: the requests in flight before it.
RunEffect(sel, cause, reqs) ==
  LET n == Len(loads) + 1
  IN /\ loads' = Append(loads, [filter |-> sel, cause |-> cause, status |-> "stats",
                                wrote |-> {}])
     /\ requests' = reqs \cup {Request("load", n, "stats", LoadStatsUrl(sel))}
     /\ issued' = issued (+) SetToBag((reqs \ requests) \cup
                                      {Request("load", n, "stats", LoadStatsUrl(sel))})
     /\ timers' = ClearInterval(timers, refreshInterval) \cup {[id |-> n, filter |-> sel]}
     /\ refreshInterval' = n
     /\ isLoading' = TRUE

\* first commit of the component: the effect runs for the first time
Mount ==
  /\ phase = "init"
  /\ phase' = "mounted"
  /\ RunEffect(selectedTimeSlot, "mount", requests)
  /\ UNCHANGED <<stats, recentAttendance, refreshKey, timeSlots, selectedTimeSlot,
                 clicks, ticks, toasts, recentFrom, summaryVars>>

\* the options of select#time-slot-filter
Options == {ALL} \cup Range(timeSlots)

\* onChange of the select with a value other than the current one: the state
\* changes, the component re-renders, the effect is cleaned up and run again
ChangeTimeSlot(v) ==
  /\ phase = "mounted"
  /\ Events < MaxEvents
  /\ v \in Options
  /\ v # selectedTimeSlot
  /\ selectedTimeSlot' = v
  /\ RunEffect(v, "filter", requests)
  /\ UNCHANGED <<phase, stats, recentAttendance, refreshKey, timeSlots,
                 clicks, ticks, toasts, recentFrom, summaryVars>>

\* onClick of the refresh button (lines 124-151); setRefreshKey makes the
\* effect run again in the same task
ClickRefresh ==
  /\ phase = "mounted"
  /\ Events < MaxEvents
  /\ LET k == Len(clicks) + 1
     IN /\ refreshKey' = refreshKey + 1
        /\ clicks' = Append(clicks, [filter |-> selectedTimeSlot, effect |-> Len(loads) + 1,
                                     status |-> "pending",
                                     statsRes |-> Null, attRes |-> Null])
        /\ RunEffect(selectedTimeSlot, "click",
                     requests \cup {Request("manual", k, "stats", StatsUrl(selectedTimeSlot)),
                                    Request("manual", k, "att", AttendanceUrl(selectedTimeSlot))})
  /\ UNCHANGED <<phase, stats, recentAttendance, timeSlots, selectedTimeSlot,
                 ticks, toasts, recentFrom, summaryVars>>

\* the component is removed: the cleanup of the last effect run is called
Unmount ==
  /\ phase = "mounted"
  /\ Events < MaxEvents
  /\ phase' = "unmounted"
  /\ timers' = ClearInterval(timers, refreshInterval)
  /\ UNCHANGED <<reactState, refreshInterval, requests, history, summaryVars>>

\* the interval callback of timer t fires (lines 62-71)
TimerTick(t) ==
  /\ t \in timers
  /\ Events < MaxEvents
  /\ ticks' = Append(ticks, "inflight")
  /\ requests' = requests \cup {Request("tick", Len(ticks) + 1, "att", TimerUrl(t.filter))}
  /\ issued' = issued (+) SetToBag({Request("tick", Len(ticks) + 1, "att", TimerUrl(t.filter))})
  /\ UNCHANGED <<phase, reactState, timers, refreshInterval, loads, clicks, toasts,
                 recentFrom, summaryVars>>

\* ------------------------------------------------------------- responses
\* what the backend may answer to a request
Answers(r) == IF r.kind = "stats" THEN StatsResponses ELSE RecResponses

\* the toasts after the .catch of the interval callback of tick i, which
\* calls console.error only
TimerCatchOff(i) == toasts (+) SetToBag({Toast("error", "Failed to refresh data", "tick", i)})

TimerCatch(i) == toasts

\* the response to a request of the interval callback arrives (lines 72-78)
TickResponse(r, ok) ==
  /\ r \in requests /\ r.origin = "tick"
  /\ requests' = requests \ {r}
  /\ IF ok
     THEN /\ \E data \in RecResponses : recentAttendance' = SetState(recentAttendance, data)
          /\ recentFrom' = SetState(recentFrom, r)
          /\ ticks' = [ticks EXCEPT ![r.owner] = "ok"]
          /\ UNCHANGED <<toasts, isLoading>>
     ELSE /\ toasts' = TimerCatch(r.owner)
          /\ ticks' = [ticks EXCEPT ![r.owner] = "failed"]
          /\ UNCHANGED <<recentAttendance, recentFrom, isLoading>>
  /\ UNCHANGED <<phase, stats, refreshKey, timeSlots, selectedTimeSlot, timers,
                 refreshInterval, loads, clicks, issued, summaryVars>>

\* the catch and finally of fetchDashboardData (lines 51-56)
LoadFailed(i, at) ==
  /\ toasts' = toasts (+) SetToBag({Toast("error", "Failed to load dashboard data", "load", i)})
  /\ isLoading' = SetState(isLoading, FALSE)
  /\ loads' = [loads EXCEPT ![i].status = at]

\* the response to statsUrl arrives: fetchDashboardData continues from its
\* first await to its second (lines 29-49), or to catch/finally
LoadStatsResponse(r, ok) ==
  /\ r \in requests /\ r.origin = "load" /\ r.kind = "stats"
  /\ LET i == r.owner
         url == AttendanceUrl(loads[i].filter)
     IN IF ok
        THEN /\ \E data \in StatsResponses :
                  /\ stats' = SetState(stats, Arr(data))
                  /\ timeSlots' = SetState(timeSlots, ExtractSlots(data))
             /\ requests' = (requests \ {r}) \cup {Request("load", i, "att", url)}
             /\ issued' = issued (+) SetToBag({Request("load", i, "att", url)})
             /\ loads' = [loads EXCEPT ![i].status = "att",
                                       ![i].wrote = @ \cup SetState({}, {"stats", "timeSlots"})]
             /\ UNCHANGED <<toasts, isLoading>>
        ELSE /\ LoadFailed(i, "failedStats")
             /\ requests' = requests \ {r}
             /\ UNCHANGED <<stats, timeSlots, issued>>
  /\ UNCHANGED <<phase, recentAttendance, refreshKey, selectedTimeSlot, timers,
                 refreshInterval, clicks, ticks, recentFrom, summaryVars>>

\* the response to attendanceUrl arrives: fetchDashboardData runs from its
\* second await to its end (lines 49-56); the code has no flag by which the
\* cleanup of an effect run would make a later response of that run ignored
LoadAttResponseGuarded(r, ok) ==
  /\ r \in requests /\ r.origin = "load" /\ r.kind = "att"
  /\ requests' = requests \ {r}
  /\ LET i == r.owner
     IN IF ok
        THEN /\ IF i = Len(loads)
                THEN /\ \E data \in RecResponses :
                          recentAttendance' = SetState(recentAttendance, data)
                     /\ recentFrom' = SetState(recentFrom, r)
                ELSE UNCHANGED <<recentAttendance, recentFrom>>
             /\ isLoading' = SetState(isLoading, FALSE)
             /\ loads' = [loads EXCEPT ![i].status = "ok"]
             /\ UNCHANGED toasts
        ELSE /\ LoadFailed(i, "failedAtt")
             /\ UNCHANGED <<recentAttendance, recentFrom>>
  /\ UNCHANGED <<phase, stats, refreshKey, timeSlots, selectedTimeSlot, timers,
                 refreshInterval, clicks, ticks, issued, summaryVars>>

LoadAttResponse(r, ok) ==
  /\ r \in requests /\ r.origin = "load" /\ r.kind = "att"
  /\ requests' = requests \ {r}
  /\ LET i == r.owner
     IN IF ok
        THEN /\ \E data \in RecResponses : recentAttendance' = SetState(recentAttendance, data)
             /\ recentFrom' = SetState(recentFrom, r)
             /\ isLoading' = SetState(isLoading, FALSE)
             /\ loads' = [loads EXCEPT ![i].status = "ok",
                                       ![i].wrote = @ \cup SetState({}, {"recentAttendance"})]
             /\ UNCHANGED toasts
        ELSE /\ LoadFailed(i, "failedAtt")
             /\ UNCHANGED <<recentAttendance, recentFrom>>
  /\ UNCHANGED <<phase, stats, refreshKey, timeSlots, selectedTimeSlot, timers,
                 refreshInterval, clicks, ticks, issued, summaryVars>>

\* a response to one of the two requests of the refresh button's Promise.all
\* arrives (lines 138-150): the promise is fulfilled when both have succeeded
\* and rejected by the first failure; it is settled once
ManualResponse(r, ok) ==
  /\ r \in requests /\ r.origin = "manual"
  /\ requests' = requests \ {r}
  /\ \E data \in (IF ok /\ clicks[r.owner].status = "pending" THEN Answers(r) ELSE {<<>>}) :
     LET k == r.owner
         c == clicks[k]
         got == IF r.kind = "stats" THEN [c EXCEPT !.statsRes = Arr(data)]
                                    ELSE [c EXCEPT !.attRes = Arr(data)]
         other == [origin |-> "manual", owner |-> k, kind |-> "att",
                   url |-> AttendanceUrl(c.filter)]
     IN IF c.status # "pending"
        THEN UNCHANGED <<stats, recentAttendance, recentFrom, isLoading, toasts, clicks>>
        ELSE IF ~ok
        THEN /\ toasts' = toasts (+) SetToBag({Toast("error", "Failed to refresh data", "manual", k)})
             /\ isLoading' = SetState(isLoading, FALSE)
             /\ clicks' = [clicks EXCEPT ![k] = [c EXCEPT !.status = "rejected",
                                                          !.statsRes = Null, !.attRes = Null]]
             /\ UNCHANGED <<stats, recentAttendance, recentFrom>>
        ELSE IF got.statsRes.null \/ got.attRes.null
        THEN /\ clicks' = [clicks EXCEPT ![k] = got]
             /\ UNCHANGED <<stats, recentAttendance, recentFrom, isLoading, toasts>>
        ELSE /\ stats' = SetState(stats, got.statsRes)
             /\ recentAttendance' = SetState(recentAttendance, got.attRes.data)
             /\ recentFrom' = SetState(recentFrom, other)
             /\ toasts' = toasts (+) SetToBag({Toast("success", "Dashboard refreshed", "manual", k)})
             /\ isLoading' = SetState(isLoading, FALSE)
             /\ clicks' = [clicks EXCEPT ![k] = [c EXCEPT !.status = "resolved",
                                                          !.statsRes = Null, !.attRes = Null]]
  /\ UNCHANGED <<phase, refreshKey, timeSlots, selectedTimeSlot, timers,
                 refreshInterval, loads, ticks, issued, summaryVars>>

Next ==
  \/ Mount
  \/ \E v \in Options : ChangeTimeSlot(v)
  \/ ClickRefresh
  \/ Unmount
  \/ \E t \in timers : TimerTick(t)
  \/ \E r \in requests, ok \in BOOLEAN : TickResponse(r, ok)
  \/ \E r \in requests, ok \in BOOLEAN : LoadStatsResponse(r, ok)
  \/ \E r \in requests, ok \in BOOLEAN : LoadAttResponse(r, ok)
  \/ \E r \in requests, ok \in BOOLEAN : ManualResponse(r, ok)

Spec == Init /\ [][Next]_vars

\* ------------------------------------------- calculateSummary on its own
Pcts == {50, 60, 74, 75, 90}

SummaryEntries == {Stat(s, p, <<>>, <<>>) : s \in Students, p \in Pcts}

SummaryInputs ==
  [stats : {Null} \cup {Arr(d) : d \in UNION {[1..k -> SummaryEntries] : k \in 0..MaxStatsLen}},
   recent : RecResponses]

SummaryInit ==
  /\ InitDashboard
  /\ sArgs \in SummaryInputs
  /\ sOut = NoSummary

\* one render: const summary = calculateSummary() (line 116)
Render ==
  /\ sOut = NoSummary
  /\ sOut' = CalculateSummary(sArgs.stats, sArgs.recent)
  /\ UNCHANGED <<phase, reactState, timers, refreshInterval, requests, history, sArgs>>

SummaryNext == Render

SummarySpec == SummaryInit /\ [][SummaryNext]_vars

\* ------------------------------------------------- vocabulary of the claims
RECURSIVE SumCopies(_, _)
\* the number of copies in bag B of the elements of the set S
SumCopies(B, S) ==
  IF S = {} THEN 0
  ELSE LET x == CHOOSE y \in S : TRUE IN CopiesIn(x, B) + SumCopies(B, S \ {x})

\* the number of api.get calls made so far by origin/owner for one kind
CountIssued(origin, owner, kind) ==
  SumCopies(issued, {r \in BagToSet(issued) :
                       r.origin = origin /\ r.owner = owner /\ r.kind = kind})

\* the number of toast.error calls made so far by origin/owner
ErrorsOf(origin, owner) ==
  SumCopies(toasts, {t \in BagToSet(toasts) :
                       t.kind = "error" /\ t.origin = origin /\ t.owner = owner})

\* url is the stats request for filter sel
BuiltStats(url, sel) ==
  /\ url.path = <<"/api/attendance/stats">>
  /\ IF sel = ALL THEN url.query = <<>>
     ELSE \E a, b \in Times :
            /\ sel = Template(a, b)
            /\ url.query = << <<"startTime", a>>, <<"endTime", b>> >>

\* url is the today's-records request for filter sel
BuiltAtt(url, sel) ==
  IF sel = ALL
  THEN url = [path |-> <<"/api/attendance/date/", Today>>, query |-> <<>>]
  ELSE \E a, b \in Times :
         /\ sel = Template(a, b)
         /\ url = [path |-> <<"/api/attendance/timeslot">>,
                   query |-> << <<"date", Today>>, <<"startTime", a>>, <<"endTime", b>> >>]

LoadSettled(i) == loads[i].status \in {"ok", "failedStats", "failedAtt"}
LoadHasFailed(i) == loads[i].status \in {"failedStats", "failedAtt"}

\* ------------------------------------------------------------------ C1
\* C1 as stated: every settled load started by a filter change has issued
\* exactly one stats request and exactly one today's-records request,
\* whatever the outcome of the stats request.
C1_OnePairWhateverOutcome ==
  \A i \in DOMAIN loads :
    (loads[i].cause = "filter" /\ LoadSettled(i)) =>
      /\ CountIssued("load", i, "stats") = 1
      /\ CountIssued("load", i, "att") = 1

\* C1 amended: a filter change issues exactly one stats request built from
\* the new filter; it issues exactly one today's-records request built from
\* the new filter once the stats request has succeeded and none if it fails;
\* and while this is the last effect run, the only active timer is the one it
\* started, for the new filter.
C1_FilterChangeFetches ==
  \A i \in DOMAIN loads :
    loads[i].cause = "filter" =>
      /\ loads[i].filter # loads[i - 1].filter
      /\ CountIssued("load", i, "stats") = 1
      /\ \A r \in BagToSet(issued) :
           (r.origin = "load" /\ r.owner = i) =>
              IF r.kind = "stats" THEN BuiltStats(r.url, loads[i].filter)
                                  ELSE BuiltAtt(r.url, loads[i].filter)
      /\ CountIssued("load", i, "att") =
           (IF loads[i].status \in {"stats", "failedStats"} THEN 0 ELSE 1)
      /\ (i = Len(loads) /\ phase = "mounted") =>
           /\ selectedTimeSlot = loads[i].filter
           /\ timers = {[id |-> i, filter |-> selectedTimeSlot]}

\* a filter change whose stats request has failed
C1_Witness ==
  \E i \in DOMAIN loads :
    /\ loads[i].cause = "filter" /\ loads[i].status = "failedStats"
    /\ phase = "mounted" /\ Cardinality(timers) = 1

\* ------------------------------------------------------------------ C2
\* C2: every failed, settled user-triggered load (mount, filter change, one
\* click) has emitted exactly one toast.error, and the loading flag is false
\* once nothing is in flight.
C2_ExactlyOneError ==
  /\ \A i \in DOMAIN loads :
       (loads[i].cause # "click" /\ LoadHasFailed(i)) => ErrorsOf("load", i) = 1
  /\ \A k \in DOMAIN clicks :
       (/\ clicks[k].status # "pending"
        /\ LoadSettled(clicks[k].effect)
        /\ (clicks[k].status = "rejected" \/ LoadHasFailed(clicks[k].effect)))
       => ErrorsOf("manual", k) + ErrorsOf("load", clicks[k].effect) = 1
  /\ (phase = "mounted" /\ requests = {}) => ~isLoading

\* ------------------------------------------------------------------ C3
\* C3: a load that failed at either request has changed none of stats,
\* timeSlots and recentAttendance.
C3_FailedLoadWritesNothing ==
  \A i \in DOMAIN loads : LoadHasFailed(i) => loads[i].wrote = {}

\* ------------------------------------------------------------------ C4
C4_Inv ==
  /\ Cardinality(timers) <= 1
  /\ phase = "mounted" => \A t \in timers : t.filter = selectedTimeSlot
  /\ phase # "mounted" => timers = {}

C4_Tick ==
  \A r \in requests' \ requests :
    r.origin = "tick" => (phase = "mounted" /\ BuiltAtt(r.url, selectedTimeSlot))

C5_LoadingWhileManualInFlight ==
  phase = "mounted" => \A r \in requests : r.origin = "manual" => isLoading

\* ------------------------------------------------------------------ C6
\* C6: the summary's presentToday is the number of today's records held.
C6_PresentTodayIsRecordCount ==
  CalculateSummary(stats, recentAttendance).presentToday = Len(recentAttendance)

\* ------------------------------------------------------------------ C7
RECURSIVE SumTo(_, _)
SumTo(st, n) == IF n = 0 THEN 0 ELSE st[n].presentPercentage + SumTo(st, n - 1)

\* C7: calculateSummary returns the number of distinct students, the mean of
\* presentPercentage (0 for an empty or missing array), the number of entries
\* strictly below 75, and all zeros when both arrays are empty.
C7_SummaryFields ==
  sOut # NoSummary =>
    LET st == sArgs.stats.data
    IN /\ sOut.totalStudents =
            Cardinality({s \in Students : \E i \in DOMAIN st : st[i].student = s})
       /\ IF st = <<>> THEN sOut.averageAttendance = Zero
          ELSE sOut.averageAttendance.num * Len(st) =
                 SumTo(st, Len(st)) * sOut.averageAttendance.den
       /\ sOut.belowThreshold =
            Cardinality({i \in DOMAIN st : 75 - st[i].presentPercentage >= 1})
       /\ (st = <<>> /\ sArgs.recent = <<>>) =>
            sOut = [totalStudents |-> 0, averageAttendance |-> Zero,
                    presentToday |-> 0, belowThreshold |-> 0]

\* a summary of an array in which a student repeats and an entry is at 75
C7_Witness ==
  /\ sOut # NoSummary
  /\ Len(sArgs.stats.data) > sOut.totalStudents
  /\ \E i \in DOMAIN sArgs.stats.data : sArgs.stats.data[i].presentPercentage = 75
  /\ sOut.belowThreshold = 1

\* ------------------------------------------------------------------ C8
\* C8: when nothing is in flight the option list is the duplicate-free list
\* of the "start-end" pairs of the stats array held in state.
C8_SlotsFromLastStats ==
  (phase = "mounted" /\ requests = {}) =>
    /\ Range(timeSlots) =
         {Template(e.startTime, e.endTime) :
            e \in {x \in Range(stats.data) : x.startTime # <<>> /\ x.endTime # <<>>}}
    /\ Cardinality(Range(timeSlots)) = Len(timeSlots)

\* ------------------------------------------------------------------ C9
TickIssued == \E r \in requests' \ requests : r.origin = "tick"
TickAnswered == \E r \in requests \ requests' : r.origin = "tick"

C9_Step ==
  /\ TickIssued =>
       /\ \A r \in requests' \ requests :
            r.origin = "tick" /\ r.kind = "att" /\ r.url.path # <<"/api/attendance/stats">>
       /\ Cardinality(requests' \ requests) = 1
       /\ BagCardinality(issued') = BagCardinality(issued) + 1
       /\ UNCHANGED <<reactState, toasts>>
  /\ TickAnswered =>
       /\ requests' \subseteq requests
       /\ UNCHANGED <<isLoading, stats, timeSlots, selectedTimeSlot, refreshKey, toasts, issued>>
       /\ (\E i \in DOMAIN ticks : ticks[i] = "inflight" /\ ticks'[i] = "failed")
            => UNCHANGED recentAttendance

\* C9: a tick issues one today's-records request and nothing else; its answer
\* may replace recentAttendance only (nothing on failure), emits no
\* notification and leaves isLoading, stats, timeSlots and the filter alone.
C9_TickFrame == [][C9_Step]_vars

\* a tick's request has failed
C9_Witness == \E i \in DOMAIN ticks : ticks[i] = "failed"

\* ----------------------------------------------------------------- C10
\* C10: a click has caused one stats request and at most one today's-records
\* request (exactly one once the click has settled), and one timer is active.
C10_TwoRequestsPerClick ==
  \A k \in DOMAIN clicks :
    /\ CountIssued("manual", k, "stats") + CountIssued("load", clicks[k].effect, "stats") = 1
    /\ CountIssued("manual", k, "att") + CountIssued("load", clicks[k].effect, "att") <= 1
    /\ phase = "mounted" => Cardinality(timers) = 1

\* ----------------------------------------------------------------- C11
\* the step is the arrival of a successful response to the today's-records
\* request r
RecordsArrive(r) ==
  /\ r.kind = "att"
  /\ TickResponse(r, TRUE) \/ LoadAttResponse(r, TRUE) \/ ManualResponse(r, TRUE)

\* r is no request of a click whose other request is still in flight
NothingElsePending(r) ==
  r.origin = "manual" =>
    ~\E q \in requests \ {r} : q.origin = "manual" /\ q.owner = r.owner

\* recentAttendance' is the response to the records request of r's origin
AppliedRecords(r) ==
  /\ recentFrom'.origin = r.origin /\ recentFrom'.owner = r.owner
  /\ recentFrom'.kind = "att"
  /\ recentAttendance' \in RecResponses

C11_Step ==
  \A r \in requests :
    (phase = "mounted" /\ RecordsArrive(r)) =>
      IF r.origin # "manual"
      THEN /\ AppliedRecords(r)
           /\ recentFrom'.url = r.url
      ELSE IF clicks[r.owner].status = "pending" /\ NothingElsePending(r)
      THEN AppliedRecords(r) /\ clicks'[r.owner].status = "resolved"
      ELSE UNCHANGED <<stats, recentAttendance, recentFrom, timeSlots>>

====
